---- MODULE Spec2Model ----
(***************************************************************************)
(* Model of the JSON-backed document store of instagram_blog.py: the        *)
(* backing file blog_data.json, the functions load_data,                    *)
(* create_default_data and save_data, and the three handlers that mutate    *)
(* the document (PostCard._toggle_like, AddPostPopup._create_post,          *)
(* CommentsPopup._add_comment), each followed by refresh_feed.              *)
(* A second part models the session, follow and post handlers of the        *)
(* MySQL-backed BlogifyApp of blogify.py.                                    *)
(***************************************************************************)
EXTENDS Integers, Sequences, FiniteSets

\* ---------------------------------------------------------------- bounds
MaxPosts == 4        \* posts in a document (3 of them seeded)
MaxComments == 4     \* comments in a document (3 of them seeded)
MaxClock == 1        \* readings of datetime.now()
MaxUsers == 3        \* rows of table user (2 of them seeded)
MaxDbPosts == 3      \* rows ever inserted into table post (2 of them seeded)
MaxFollows == 1      \* rows of table follow

\* ---------------------------------------------------------------- state
VARIABLES
    file,        \* blog_data.json: missing, unparsable, or holding a document
    feed,        \* post ids of the cards refresh_feed rendered last
    clock,       \* datetime.now()
    lastOp,      \* the last handler run: name, target, outcome, dialogs shown
    highId,      \* the highest post id _create_post has assigned so far
    db           \* blogify.py: the tables, BlogifyApp.current_user, the screen
                 \* shown and what the last handler did

vars == <<file, feed, clock, lastOp, highId, db>>

\* ------------------------------------------------------------ sequences
RECURSIVE SeqMax(_, _)
\* max([...], default=d)
SeqMax(s, d) ==
    IF s = <<>> THEN d
    ELSE LET m == SeqMax(Tail(s), d)
         IN  IF Tail(s) = <<>> THEN Head(s)
             ELSE IF Head(s) > m THEN Head(s) ELSE m

\* x in list
InList(x, s) == \E i \in 1..Len(s) : s[i] = x

\* list.remove(x): drops the first occurrence of x
ListRemove(s, x) ==
    LET i == CHOOSE k \in 1..Len(s) : s[k] = x /\ \A j \in 1..(k-1) : s[j] # x
    IN  SubSeq(s, 1, i-1) \o SubSeq(s, i+1, Len(s))

PyMax0(n) == IF n > 0 THEN n ELSE 0

WhiteSpace == {" "}

RECURSIVE LStrip(_)
LStrip(s) == IF s # <<>> /\ Head(s) \in WhiteSpace THEN LStrip(Tail(s)) ELSE s

RECURSIVE RStrip(_)
RStrip(s) ==
    IF s # <<>> /\ s[Len(s)] \in WhiteSpace THEN RStrip(SubSeq(s, 1, Len(s)-1)) ELSE s

\* variant: the text is taken as typed
StripNothing(s) == s

\* str.strip()
Strip(s) == RStrip(LStrip(s))

\* ------------------------------------------------------------- documents
None == [none |-> TRUE]

SeedUser(t) ==
    [user_id |-> 1, username |-> "harini", email |-> "harini@example.com",
     bio |-> "Welcome to my blog!", created_at |-> t]

SeedComment(uid, uname, text, t) ==
    [user_id |-> uid, username |-> uname, text |-> <<text>>, created_at |-> t]

\* the document literal of create_default_data, built at time t
DefaultData(t) ==
    [current_user |-> SeedUser(t),
     posts |-> <<
        [post_id |-> 1, user_id |-> 1, username |-> "harini",
         content |-> <<"Beautiful sunset at the beach!">>,
         image_path |-> None, likes |-> 42, liked_by |-> <<>>,
         comments |-> << SeedComment(2, "friend1", "Amazing shot!", t),
                         SeedComment(3, "friend2", "Love this!", t) >>,
         created_at |-> t],
        [post_id |-> 2, user_id |-> 1, username |-> "harini",
         content |-> <<"Coffee and coding">>,
         image_path |-> None, likes |-> 28, liked_by |-> <<>>,
         comments |-> << SeedComment(2, "friend1", "Same here!", t) >>,
         created_at |-> t],
        [post_id |-> 3, user_id |-> 1, username |-> "harini",
         content |-> <<"New project coming soon!">>,
         image_path |-> None, likes |-> 35, liked_by |-> <<>>,
         comments |-> <<>>,
         created_at |-> t] >>,
     users |-> << SeedUser(t) >>,
     notifications |-> <<>>]

\* a document with no posts
EmptyData(t) == [DefaultData(t) EXCEPT !.posts = <<>>]

PostIds(d) == [i \in 1..Len(d.posts) |-> d.posts[i].post_id]

PostIdSet(d) == {d.posts[i].post_id : i \in 1..Len(d.posts)}

RECURSIVE SumComments(_)
SumComments(ps) == IF ps = <<>> THEN 0 ELSE Len(Head(ps).comments) + SumComments(Tail(ps))

\* number of comments in the document
CommentCount(d) == SumComments(d.posts)

HasPost(d, pid) == pid \in PostIdSet(d)

\* the first post of d with this id: what "for post in data['posts'] ... break" finds
FindPost(d, pid) ==
    CHOOSE i \in 1..Len(d.posts) :
        d.posts[i].post_id = pid /\ \A j \in 1..(i-1) : d.posts[j].post_id # pid

\* ------------------------------------------------------------------ JSON
\* JSON values, as json.dump writes them and json.load reads them
JNull == [j |-> "null"]
JNum(n) == [j |-> "number", v |-> n]
JStr(s) == [j |-> "string", v |-> s]
JArr(s) == [j |-> "array", v |-> s]
JObj(r) == [j |-> "object", v |-> r]

\* json.dump of a user dict
DumpUser(u) ==
    JObj([user_id |-> JNum(u.user_id), username |-> JStr(u.username),
          email |-> JStr(u.email), bio |-> JStr(u.bio),
          created_at |-> JStr(u.created_at)])

\* json.dump of a comment dict
DumpComment(c) ==
    JObj([user_id |-> JNum(c.user_id), username |-> JStr(c.username),
          text |-> JStr(c.text), created_at |-> JStr(c.created_at)])

\* json.dump of a post dict; image_path is None or a str
DumpPost(p) ==
    JObj([post_id |-> JNum(p.post_id), user_id |-> JNum(p.user_id),
          username |-> JStr(p.username), content |-> JStr(p.content),
          image_path |-> (IF p.image_path = None THEN JNull ELSE JStr(p.image_path)),
          likes |-> JNum(p.likes),
          liked_by |-> JArr([i \in 1..Len(p.liked_by) |-> JNum(p.liked_by[i])]),
          comments |-> JArr([i \in 1..Len(p.comments) |-> DumpComment(p.comments[i])]),
          created_at |-> JStr(p.created_at)])

\* json.dump(data, f, indent=2, ensure_ascii=False): the text written
JsonDump(d) ==
    JObj([current_user |-> DumpUser(d.current_user),
          posts |-> JArr([i \in 1..Len(d.posts) |-> DumpPost(d.posts[i])]),
          users |-> JArr([i \in 1..Len(d.users) |-> DumpUser(d.users[i])]),
          notifications |-> JArr(d.notifications)])

RECURSIVE JsonLoad(_)
\* json.load(f): null -> None, number -> int, string -> str, array -> list,
\* object -> dict
JsonLoad(x) ==
    CASE x.j = "null"   -> None
      [] x.j = "number" -> x.v
      [] x.j = "string" -> x.v
      [] x.j = "array"  -> [i \in 1..Len(x.v) |-> JsonLoad(x.v[i])]
      [] x.j = "object" -> [k \in DOMAIN x.v |-> JsonLoad(x.v[k])]

\* --------------------------------------------------------- backing file
\* the file is absent, holds text json.load rejects, or holds the text
\* json.dump wrote for a document; doc is the document json.load returns
\* for that text
Missing == [status |-> "missing"]
Corrupt == [status |-> "corrupt"]
Stored(d) == [status |-> "ok", doc |-> d]

\* how one open(DATA_FILE, 'w') + json.dump can end
SaveOutcomes == {"ok", "open_fail", "write_fail"}

\* variant: the file is opened with mode 'a', so a document is written after
\* whatever the file held
SaveDataAppend(f, d, o) ==
    CASE o = "ok"         -> IF f.status = "missing" THEN Stored(JsonLoad(JsonDump(d)))
                             ELSE Corrupt
      [] o = "open_fail"  -> f
      [] o = "write_fail" -> Corrupt

\* save_data: the file after the call.  open() failing leaves the file as it
\* was; a failure once the file is open for writing leaves it truncated.
SaveData(f, d, o) ==
    CASE o = "ok"         -> Stored(JsonLoad(JsonDump(d)))
      [] o = "open_fail"  -> f
      [] o = "write_fail" -> Corrupt

\* the outcomes of the save inside load_data that matter: it saves only when
\* the file is missing or unparsable
LoadOutcomes(f) == IF f.status = "ok" THEN {"ok"} ELSE SaveOutcomes

\* save_data: the error dialog of its except branch
SaveMsgs(o) == IF o = "ok" THEN <<>> ELSE <<"Failed to save data">>

\* variant: the default document is returned without being saved
LoadDataNoSave(f, o, t) ==
    IF f.status = "ok"
    THEN [doc |-> f.doc, file |-> f, msgs |-> <<>>]
    ELSE [doc |-> DefaultData(t), file |-> f, msgs |-> <<>>]

\* variant: an unparsable file yields a document with no posts
LoadDataEmptyOnError(f, o, t) ==
    IF f.status = "ok"
    THEN [doc |-> f.doc, file |-> f, msgs |-> <<>>]
    ELSE IF f.status = "corrupt"
    THEN [doc |-> EmptyData(t), file |-> f, msgs |-> <<>>]
    ELSE [doc |-> DefaultData(t), file |-> SaveData(f, DefaultData(t), o),
          msgs |-> SaveMsgs(o)]

\* variant: after an unparsable file the default document is returned and
\* the file is left alone
LoadDataKeepsCorrupt(f, o, t) ==
    IF f.status = "ok"
    THEN [doc |-> f.doc, file |-> f, msgs |-> <<>>]
    ELSE IF f.status = "corrupt"
    THEN [doc |-> DefaultData(t), file |-> f, msgs |-> <<>>]
    ELSE [doc |-> DefaultData(t), file |-> SaveData(f, DefaultData(t), o),
          msgs |-> SaveMsgs(o)]

\* load_data: the document returned and the file afterwards; a missing or
\* unparsable file yields create_default_data(), which saves (outcome o)
LoadData(f, o, t) ==
    IF f.status = "ok"
    THEN [doc |-> f.doc, file |-> f, msgs |-> <<>>]
    ELSE [doc |-> DefaultData(t), file |-> SaveData(f, DefaultData(t), o),
          msgs |-> SaveMsgs(o)]

\* ------------------------------------------------------ document changes
\* variant: unliking forgets to take the like back off the count
ToggleLikePostNoDecrement(p, uid) ==
    IF InList(uid, p.liked_by)
    THEN [p EXCEPT !.liked_by = ListRemove(p.liked_by, uid)]
    ELSE [p EXCEPT !.liked_by = Append(p.liked_by, uid),
                   !.likes = p.likes + 1]

\* variant: unliking lowers the count but leaves the user in liked_by
ToggleLikePostKeepsLiker(p, uid) ==
    IF InList(uid, p.liked_by)
    THEN [p EXCEPT !.likes = PyMax0(p.likes - 1)]
    ELSE [p EXCEPT !.liked_by = Append(p.liked_by, uid),
                   !.likes = p.likes + 1]

\* variant: liking takes one off the count instead of adding one
ToggleLikePostLikeDecrements(p, uid) ==
    IF InList(uid, p.liked_by)
    THEN [p EXCEPT !.liked_by = ListRemove(p.liked_by, uid),
                   !.likes = PyMax0(p.likes - 1)]
    ELSE [p EXCEPT !.liked_by = Append(p.liked_by, uid),
                   !.likes = p.likes - 1]

\* variant: liking records the liker and leaves the count as it was
ToggleLikePostNoIncrement(p, uid) ==
    IF InList(uid, p.liked_by)
    THEN [p EXCEPT !.liked_by = ListRemove(p.liked_by, uid),
                   !.likes = PyMax0(p.likes - 1)]
    ELSE [p EXCEPT !.liked_by = Append(p.liked_by, uid)]

\* variant: no membership test, every click is a like
ToggleLikePostAlwaysAppends(p, uid) ==
    [p EXCEPT !.liked_by = Append(p.liked_by, uid),
              !.likes = p.likes + 1]

\* the like branch of _toggle_like on one post
ToggleLikePost(p, uid) ==
    IF InList(uid, p.liked_by)
    THEN [p EXCEPT !.liked_by = ListRemove(p.liked_by, uid),
                   !.likes = PyMax0(p.likes - 1)]
    ELSE [p EXCEPT !.liked_by = Append(p.liked_by, uid),
                   !.likes = p.likes + 1]

\* variant: the like branch runs after the loop, on whatever post the loop
\* variable was left at
ToggleLikeDocOrLast(d, pid) ==
    IF d.posts = <<>> THEN d
    ELSE LET i == IF HasPost(d, pid) THEN FindPost(d, pid) ELSE Len(d.posts)
         IN  [d EXCEPT !.posts[i] = ToggleLikePost(d.posts[i], d.current_user.user_id)]

\* variant: the loop has no test of post_id, every post is toggled
ToggleLikeDocEveryPost(d, pid) ==
    [d EXCEPT !.posts = [i \in 1..Len(d.posts) |->
                            ToggleLikePost(d.posts[i], d.current_user.user_id)]]

\* the loop of _toggle_like over data['posts']
ToggleLikeDoc(d, pid) ==
    IF HasPost(d, pid)
    THEN LET i == FindPost(d, pid)
         IN  [d EXCEPT !.posts[i] = ToggleLikePost(d.posts[i], d.current_user.user_id)]
    ELSE d

\* variant: the id is taken from the last post of the list, not the greatest
NewPostAfterLast(d, caption, image, t) ==
    [post_id |-> (IF d.posts = <<>> THEN 0 ELSE d.posts[Len(d.posts)].post_id) + 1,
     user_id |-> d.current_user.user_id,
     username |-> d.current_user.username,
     content |-> caption,
     image_path |-> image,
     likes |-> 0, liked_by |-> <<>>, comments |-> <<>>,
     created_at |-> t]

\* variant: the author's own like is counted from the start
NewPostSelfLiked(d, caption, image, t) ==
    [post_id |-> SeqMax(PostIds(d), 0) + 1,
     user_id |-> d.current_user.user_id,
     username |-> d.current_user.username,
     content |-> caption,
     image_path |-> image,
     likes |-> 1, liked_by |-> <<d.current_user.user_id>>, comments |-> <<>>,
     created_at |-> t]

\* new_post of _create_post
NewPost(d, caption, image, t) ==
    [post_id |-> SeqMax(PostIds(d), 0) + 1,
     user_id |-> d.current_user.user_id,
     username |-> d.current_user.username,
     content |-> caption,
     image_path |-> image,
     likes |-> 0, liked_by |-> <<>>, comments |-> <<>>,
     created_at |-> t]

\* variant: data['posts'].append(new_post)
CreatePostDocAtEnd(d, caption, image, t) ==
    [d EXCEPT !.posts = d.posts \o <<NewPost(d, caption, image, t)>>]

\* variant: data['posts'].insert(1, new_post)
CreatePostDocSecond(d, caption, image, t) ==
    [d EXCEPT !.posts = SubSeq(d.posts, 1, 1) \o <<NewPost(d, caption, image, t)>>
                          \o SubSeq(d.posts, 2, Len(d.posts))]

\* data['posts'].insert(0, new_post)
CreatePostDoc(d, caption, image, t) ==
    [d EXCEPT !.posts = <<NewPost(d, caption, image, t)>> \o d.posts]

\* new_comment of _add_comment
NewComment(d, text, t) ==
    [user_id |-> d.current_user.user_id, username |-> d.current_user.username,
     text |-> text, created_at |-> t]

\* variant: post['comments'].insert(0, new_comment)
AddCommentDocFirst(d, pid, text, t) ==
    IF HasPost(d, pid)
    THEN LET i == FindPost(d, pid)
         IN  [d EXCEPT !.posts[i].comments = <<NewComment(d, text, t)>> \o @]
    ELSE d

\* variant: the loop has no test of post_id, every post gets the comment
AddCommentDocEveryPost(d, pid, text, t) ==
    [d EXCEPT !.posts = [i \in 1..Len(d.posts) |->
                            [d.posts[i] EXCEPT !.comments = Append(@, NewComment(d, text, t))]]]

\* the loop of _add_comment over data['posts']
AddCommentDoc(d, pid, text, t) ==
    IF HasPost(d, pid)
    THEN LET i == FindPost(d, pid)
         IN  [d EXCEPT !.posts[i].comments = Append(@, NewComment(d, text, t))]
    ELSE d

\* ---------------------------------------------------------------- inputs
\* what the user can leave in a caption or comment box
RawTexts == { <<>>, <<" ">>, <<" ", "a", " ">> }

\* self.image_path of the popup: nothing selected, or a chosen file
ImageChoices == {"", "cat.png"}

IMAGES_DIR == "blog_images"

\* saved_image_path of _create_post
SavedImagePath(image, t) ==
    IF image = "" THEN None ELSE [dir |-> IMAGES_DIR, stamp |-> t, name |-> image]

\* what is recorded of a handler run: its name, the post id it was about
\* (for _create_post the id it assigned), whether it found the post, whether
\* its own save_data succeeded, the dialogs it showed, in order, the
\* highest post id _create_post had assigned before this run, and the state
\* its load_data found the file in ("none" when it returned before loading)
Op(name, pid, found, saved, msgs, prior, from) ==
    [name |-> name, post_id |-> pid, found |-> found, saved |-> saved,
     msgs |-> msgs, prior |-> prior, loaded |-> from]

\* the error dialog of the image copy in _create_post
ImageMsgs(image, imgOk) ==
    IF image # "" /\ ~imgOk THEN <<"Failed to save image">> ELSE <<>>

\* variant: the except branch shows the error and the handler goes on
ImageAbortsNever(image, imgOk) == FALSE

\* the except branch of the image copy in _create_post ends the handler
ImageAborts(image, imgOk) == image # "" /\ ~imgOk

IntMax(a, b) == IF a > b THEN a ELSE b

\* instagram_blog.py has no database
NoDb == [status |-> "none"]

\* ------------------------------------------------------------------ Init
\* InstagramBlogApp.__init__ on a fresh install: load_data(), then
\* refresh_feed() loads again and renders one card per post
Init ==
    \E o1 \in SaveOutcomes :
        LET L == LoadData(Missing, o1, 0) IN
        \E o2 \in LoadOutcomes(L.file) :
        LET R == LoadData(L.file, o2, 0)
        IN  /\ file = R.file
            /\ feed = PostIdSet(R.doc)
            /\ clock = 0
            /\ lastOp = Op("init", 0, FALSE, FALSE, L.msgs \o R.msgs, 0, "missing")
            /\ highId = 0
            /\ db = NoDb

\* --------------------------------------------------------------- actions
\* PostCard._toggle_like of the card of post pid
ToggleLike(pid) ==
    \E o1 \in LoadOutcomes(file), o2 \in SaveOutcomes :
        LET L == LoadData(file, o1, clock)
            d == ToggleLikeDoc(L.doc, pid)
            f == SaveData(L.file, d, o2)
        IN
        \E o3 \in LoadOutcomes(f) :
        LET R == LoadData(f, o3, clock)
        IN  /\ file' = R.file
            /\ feed' = PostIdSet(R.doc)
            /\ lastOp' = Op("toggleLike", pid, HasPost(L.doc, pid), o2 = "ok",
                            L.msgs \o SaveMsgs(o2) \o R.msgs, highId, file.status)
            /\ UNCHANGED <<clock, highId, db>>

\* AddPostPopup._create_post with the caption box holding raw and
\* self.image_path = image; imgOk: whether Image.open and img.save succeed
CreatePost(raw, image, imgOk) ==
    LET caption == Strip(raw) IN
    IF caption = <<>>
    THEN /\ lastOp' = Op("createPost", 0, FALSE, FALSE, <<"Please enter a caption!">>,
                         highId, "none")
         /\ UNCHANGED <<file, feed, clock, highId, db>>
    ELSE
    \E o1 \in LoadOutcomes(file), o2 \in SaveOutcomes :
        LET L == LoadData(file, o1, clock)
            d == CreatePostDoc(L.doc, caption, SavedImagePath(image, clock), clock)
            f == SaveData(L.file, d, o2)
        IN
        \E o3 \in LoadOutcomes(f) :
        LET R == LoadData(f, o3, clock)
        IN  /\ Len(L.doc.posts) < MaxPosts
            /\ IF ImageAborts(image, imgOk)
               THEN /\ file' = L.file
                    /\ lastOp' = Op("createPost", 0, FALSE, FALSE,
                                    L.msgs \o ImageMsgs(image, imgOk),
                                    highId, file.status)
                    /\ UNCHANGED <<feed, clock, highId, db>>
               ELSE /\ file' = R.file
                    /\ feed' = PostIdSet(R.doc)
                    /\ lastOp' = Op("createPost", d.posts[1].post_id, FALSE, o2 = "ok",
                                    L.msgs \o ImageMsgs(image, imgOk) \o SaveMsgs(o2)
                                      \o <<"Post created successfully!">> \o R.msgs,
                                    highId, file.status)
                    /\ highId' = IntMax(highId, d.posts[1].post_id)
                    /\ UNCHANGED <<clock, db>>

\* CommentsPopup._add_comment of the popup opened from the card of post pid,
\* with the comment box holding raw
AddComment(pid, raw) ==
    LET text == Strip(raw) IN
    IF text = <<>>
    THEN /\ lastOp' = Op("addComment", pid, FALSE, FALSE, <<"Please enter a comment!">>,
                         highId, "none")
         /\ UNCHANGED <<file, feed, clock, highId, db>>
    ELSE
    \E o1 \in LoadOutcomes(file), o2 \in SaveOutcomes :
        LET L == LoadData(file, o1, clock)
            d == AddCommentDoc(L.doc, pid, text, clock)
            f == SaveData(L.file, d, o2)
        IN
        \E o3 \in LoadOutcomes(f) :
        LET R == LoadData(f, o3, clock)
        IN  /\ CommentCount(L.doc) < MaxComments
            /\ file' = R.file
            /\ feed' = PostIdSet(R.doc)
            /\ lastOp' = Op("addComment", pid, HasPost(L.doc, pid), o2 = "ok",
                            L.msgs \o SaveMsgs(o2) \o <<"Comment added!">> \o R.msgs,
                            highId, file.status)
            /\ UNCHANGED <<clock, highId, db>>

\* the backing file is deleted from outside the application
ExternalRemove ==
    /\ file.status # "missing"
    /\ file' = Missing
    /\ UNCHANGED <<feed, clock, lastOp, highId, db>>

\* time passes
Tick ==
    /\ clock < MaxClock
    /\ clock' = clock + 1
    /\ UNCHANGED <<file, feed, lastOp, highId, db>>

Next ==
    \/ \E pid \in feed : ToggleLike(pid)
    \/ \E raw \in RawTexts, image \in ImageChoices :
            \E imgOk \in (IF image = "" THEN {TRUE} ELSE BOOLEAN) :
                CreatePost(raw, image, imgOk)
    \/ \E pid \in feed, raw \in RawTexts : AddComment(pid, raw)
    \/ ExternalRemove
    \/ Tick

Spec == Init /\ [][Next]_vars

\* ------------------------------------------- sequences of createPost alone
\* a document to start from: the seeded one, or one with no posts
InitDoc ==
    /\ file \in {Stored(DefaultData(0)), Stored(EmptyData(0))}
    /\ feed = PostIdSet(file.doc)
    /\ clock = 0
    /\ lastOp = Op("init", 0, FALSE, FALSE, <<>>, 0, "ok")
    /\ highId = 0
    /\ db = NoDb

\* the document change of _create_post applied to the document at hand
DocCreatePost(raw, image) ==
    LET d == CreatePostDoc(file.doc, Strip(raw), SavedImagePath(image, clock), clock)
    IN  /\ Strip(raw) # <<>>
        /\ Len(file.doc.posts) < MaxPosts
        /\ file' = Stored(d)
        /\ feed' = PostIdSet(d)
        /\ lastOp' = Op("createPost", d.posts[1].post_id, FALSE, TRUE, <<>>, highId, "ok")
        /\ highId' = IntMax(highId, d.posts[1].post_id)
        /\ UNCHANGED <<clock, db>>

NextDoc ==
    \/ \E raw \in RawTexts, image \in ImageChoices : DocCreatePost(raw, image)
    \/ Tick

SpecDoc == InitDoc /\ [][NextDoc]_vars

\* ============================================================ blogify.py
\* the variables of instagram_blog.py, which blogify.py does not touch
jsonvars == <<file, feed, clock, lastOp, highId>>

\* hash_password: the stored form of a password; a row may also hold a
\* legacy password as typed, <<p>>
hash_password(password) == <<"sha256", password>>

\* str.lower() on the names and addresses used here
Lower(s) ==
    CASE s = "Admin" -> "admin"
      [] s = "Admin@Blogify.local" -> "admin@blogify.local"
      [] OTHER -> s

\* col=%s under the collation of the database: case-insensitive (ci) or not
SqlEq(ci, a, b) == IF ci THEN Lower(a) = Lower(b) ELSE a = b

\* the rows _maybe_seed inserts into empty tables
SeedUsers ==
    { [user_id |-> 1, username |-> "admin", email |-> "admin@blogify.local",
       password |-> hash_password("admin123")],
      [user_id |-> 2, username |-> "harini", email |-> "harini@example.com",
       password |-> hash_password("user123")] }

SeedPosts ==
    { [post_id |-> 1, user_id |-> 2, content |-> "Welcome to Blogify!"],
      [post_id |-> 2, user_id |-> 2, content |-> "Coffee and code"] }

\* a statement sent to the database
Q(stmt, args) == [stmt |-> stmt, args |-> args]

\* what is recorded of a handler run: its name, its argument, whether it
\* went through, the statements it sent, the dialogs it showed, and for
\* _login the row it fetched
Did(name, arg, ok, sql, msgs, row) ==
    [name |-> name, arg |-> arg, ok |-> ok, sql |-> sql, msgs |-> msgs, row |-> row]

\* variant: every account is taken for the administrator
IsAdminAccountAnyone(email, username) == TRUE

\* _login: is_admin
IsAdminAccount(email, username) ==
    Lower(email) = "admin@blogify.local" \/ Lower(username) = "admin"

\* _login: the two password comparisons, the second for legacy plaintext
PasswordMatches(stored_hash, password) ==
    stored_hash = hash_password(password) \/ stored_hash = <<password>>

\* _is_admin
IsAdmin(cu) == cu # None /\ cu.is_admin

\* variant: the test for one's own id is missing
FollowsSelfNever(cu, target) == FALSE

\* follow_user: target_user_id == self.current_user[0]
FollowsSelf(cu, target) == target = cu.user_id

\* variant: WHERE post_id=%s, without the test of user_id
OwnRowAnyOwner(r, pid, uid) == r.post_id = pid

\* edit_post, delete_post: WHERE post_id=%s AND user_id=%s
OwnRow(r, pid, uid) == r.post_id = pid /\ r.user_id = uid

\* the stored procedure follow_user(follower, following)
ProcFollowUser(follow, follower, following) == follow \cup {<<follower, following>>}

\* what the sign-up form and the login form can hold
SignupNames == {"Admin", "eve"}
SignupEmails == {"eve", "eve@example.com", "Admin@Blogify.local"}
SignupPasswords == {"", "abc", "eve1"}
LoginNames == {"", "admin", "Admin", "harini", "eve", "admin@blogify.local"}
LoginPasswords == {"", "admin123", "user123", "eve1"}

\* _register_user: "@" in email and "." in the part after it
ValidEmail(email) == email \in {"eve@example.com", "Admin@Blogify.local"}

\* _register_user: len(password) >= 4
LongEnough(password) == password \in {"eve1", "admin123", "user123"}

\* BlogifyApp.__init__ with the database reachable or not, tables empty:
\* _maybe_seed and _ensure_admin_account, then show_login
InitDb ==
    /\ file = Missing /\ feed = {} /\ clock = 0 /\ highId = 0
    /\ lastOp = Op("init", 0, FALSE, FALSE, <<>>, 0, "none")
    /\ \E conn, ci \in BOOLEAN :
         db = [conn |-> conn, ci |-> ci,
               user |-> IF conn THEN SeedUsers ELSE {},
               post |-> IF conn THEN SeedPosts ELSE {},
               follow |-> {},
               next_user |-> 3, next_post |-> 3,
               current_user |-> None, screen |-> "login",
               last |-> Did("__init__", 0, conn, <<>>, <<>>, None)]

\* a handler that leaves the tables alone: the session, the screen and
\* the record of the run afterwards
Session(cu, screen, last) ==
    /\ db' = [db EXCEPT !.current_user = cu, !.screen = screen, !.last = last]
    /\ UNCHANGED jsonvars

\* _login with the two entries of the login form (stripped by the caller)
Login(name, password) ==
    /\ db.screen = "login"
    /\ IF name = "" \/ password = ""
       THEN Session(db.current_user, db.screen,
                    Did("_login", 0, FALSE, <<>>, <<"Please enter credentials.">>, None))
       ELSE IF ~db.conn
       THEN Session(db.current_user, db.screen,
                    Did("_login", 0, FALSE, <<>>, <<"Database not connected.">>, None))
       ELSE
       LET sql == <<Q("SELECT user WHERE email OR username", <<name, name>>)>>
           rows == {r \in db.user : SqlEq(db.ci, r.email, name) \/ SqlEq(db.ci, r.username, name)}
       IN  IF rows = {}
           THEN Session(db.current_user, db.screen,
                        Did("_login", 0, FALSE, sql, <<"User not found.">>, None))
           ELSE \E row \in rows :
                IF row.password \in {<<>>, <<"">>}
                THEN Session(db.current_user, db.screen,
                             Did("_login", 0, FALSE, sql, <<"Password is missing">>, row))
                ELSE IF ~PasswordMatches(row.password, password)
                THEN Session(db.current_user, db.screen,
                             Did("_login", 0, FALSE, sql, <<"Invalid password.">>, row))
                ELSE LET is_admin == IsAdminAccount(row.email, row.username)
                     IN  Session([user_id |-> row.user_id, username |-> row.username,
                                  is_admin |-> is_admin],
                                 IF is_admin THEN "admin" ELSE "user",
                                 Did("_login", 0, TRUE, sql, <<"Welcome">>, row))

\* logout, from the navbar
Logout ==
    /\ db.screen # "login"
    /\ Session(None, "login", Did("logout", 0, TRUE, <<>>, <<>>, None))

\* _register_user with the entries of the sign-up form; ok: the INSERT
\* went through
RegisterUser(username, email, password, ok) ==
    /\ db.screen = "login"
    /\ Cardinality(db.user) < MaxUsers
    /\ LET refuse(msg) == Session(db.current_user, db.screen,
                                  Did("_register_user", 0, FALSE, <<>>, <<msg>>, None))
           rows == {r \in db.user : SqlEq(db.ci, r.username, username) \/ SqlEq(db.ci, r.email, email)}
           sel == Q("SELECT user WHERE username OR email", <<username, email>>)
           ins == Q("INSERT INTO user", <<username, email>>)
       IN  IF password = "" THEN refuse("Please fill required fields.")
           ELSE IF ~ValidEmail(email) THEN refuse("Please enter a valid email address.")
           ELSE IF ~LongEnough(password) THEN refuse("Password must be at least 4 characters.")
           ELSE IF ~db.conn THEN refuse("Database not connected.")
           ELSE IF rows # {}
           THEN Session(db.current_user, db.screen,
                        Did("_register_user", 0, FALSE, <<sel>>,
                            <<"Username or email already exists.">>, None))
           ELSE IF ~ok
           THEN Session(db.current_user, db.screen,
                        Did("_register_user", 0, FALSE, <<sel, ins>>,
                            <<"Failed to register.">>, None))
           ELSE /\ db' = [db EXCEPT
                            !.user = @ \cup {[user_id |-> db.next_user, username |-> username,
                                              email |-> email,
                                              password |-> hash_password(password)]},
                            !.next_user = @ + 1,
                            !.last = Did("_register_user", 0, TRUE, <<sel, ins>>,
                                         <<"Account created. You can login now.">>, None)]
                /\ UNCHANGED jsonvars

\* the Home button of the navbar: create_admin_dashboard for an
\* administrator, create_user_dashboard for anyone else
NavHome ==
    /\ db.screen # "login"
    /\ Session(db.current_user,
               IF db.current_user = None THEN "login"
               ELSE IF IsAdmin(db.current_user) THEN "admin" ELSE "user",
               Did("home", 0, TRUE, <<>>, <<>>, None))

\* the Search button of the navbar: show_search
NavSearch ==
    /\ db.screen # "login"
    /\ Session(db.current_user,
               IF db.current_user = None THEN db.screen ELSE "search",
               Did("show_search", 0, db.current_user # None, <<>>, <<>>, None))

\* follow_user(target_user_id), from a feed card or from a search result;
\* pOk: the stored procedure went through, eOk: the statement sent by
\* execute went through. The cards offer only other users; the handler is
\* modelled for every user id.
FollowUser(target, pOk, eOk) ==
    /\ db.screen \in {"user", "search"}
    /\ \/ target = db.current_user.user_id
       \/ <<db.current_user.user_id, target>> \in db.follow
       \/ Cardinality(db.follow) < MaxFollows
    /\ LET cu == db.current_user IN
       IF cu = None
       THEN Session(cu, db.screen, Did("follow_user", target, FALSE, <<>>, <<>>, None))
       ELSE IF FollowsSelf(cu, target)
       THEN Session(cu, db.screen,
                    Did("follow_user", target, FALSE, <<>>,
                        <<"You cannot follow yourself.">>, None))
       ELSE
       LET pair == <<cu.user_id, target>>
           sel == Q("SELECT follow", pair)
           del == Q("DELETE FROM follow", pair)
           call == Q("CALL follow_user", pair)
           ins == Q("INSERT INTO follow", pair)
       IN  /\ UNCHANGED jsonvars
           /\ IF pair \in db.follow
              THEN db' = [db EXCEPT
                            !.follow = IF eOk THEN @ \ {pair} ELSE @,
                            !.screen = "user",
                            !.last = Did("follow_user", target, eOk, <<sel, del>>,
                                         IF eOk THEN <<"You unfollowed the user.">> ELSE <<>>,
                                         None)]
              ELSE IF pOk
              THEN db' = [db EXCEPT
                            !.follow = ProcFollowUser(@, pair[1], pair[2]),
                            !.screen = "user",
                            !.last = Did("follow_user", target, TRUE, <<sel, call>>,
                                         <<"You are now following this user.">>, None)]
              ELSE db' = [db EXCEPT
                            !.follow = IF eOk THEN @ \cup {pair} ELSE @,
                            !.screen = "user",
                            !.last = Did("follow_user", target, eOk, <<sel, call, ins>>,
                                         <<"Procedure follow_user failed",
                                           IF eOk THEN "You are now following this user."
                                           ELSE "Failed to follow the user.">>, None)]

\* add_post's on_submit with the text of the dialog and no image
AddPost(content, pOk, eOk) ==
    /\ db.screen = "user"
    /\ db.next_post <= MaxDbPosts
    /\ LET cu == db.current_user
           call == Q("CALL add_new_post", <<cu.user_id, content>>)
           ins == Q("INSERT INTO post", <<cu.user_id, content>>)
           row == [post_id |-> db.next_post, user_id |-> cu.user_id, content |-> content]
       IN  IF content = ""
           THEN Session(cu, db.screen,
                        Did("add_post", 0, FALSE, <<>>, <<"Please enter post content.">>, None))
           ELSE IF ~pOk /\ ~eOk
           THEN Session(cu, db.screen,
                        Did("add_post", 0, FALSE, <<call, ins>>,
                            <<"Procedure add_new_post failed", "Failed to create post.">>, None))
           ELSE /\ db' = [db EXCEPT
                            !.post = @ \cup {row},
                            !.next_post = @ + 1,
                            !.last = Did("add_post", row.post_id, TRUE,
                                         IF pOk THEN <<call>> ELSE <<call, ins>>,
                                         (IF pOk THEN <<>> ELSE <<"Procedure add_new_post failed">>)
                                            \o <<"Post published.">>, None)]
                /\ UNCHANGED jsonvars

\* edit_post(post_id, old_content) with the text entered in the dialog.
\* The cards offer Edit and Delete on one's own posts only; the handlers
\* are modelled for every post id.
EditPost(pid, new_content, eOk) ==
    /\ db.screen = "user"
    /\ LET cu == db.current_user
           upd == Q("UPDATE post SET content WHERE post_id AND user_id", <<pid, cu.user_id>>)
       IN  IF new_content = ""
           THEN Session(cu, db.screen, Did("edit_post", pid, FALSE, <<>>, <<>>, None))
           ELSE IF ~eOk
           THEN Session(cu, db.screen,
                        Did("edit_post", pid, FALSE, <<upd>>, <<"Failed to update post.">>, None))
           ELSE /\ db' = [db EXCEPT
                            !.post = {IF OwnRow(r, pid, cu.user_id)
                                      THEN [r EXCEPT !.content = new_content] ELSE r : r \in @},
                            !.last = Did("edit_post", pid, TRUE, <<upd>>, <<"Post updated.">>, None)]
                /\ UNCHANGED jsonvars

\* delete_post(post_id) with the answer to the confirmation
DeletePost(pid, yes, eOk) ==
    /\ db.screen = "user"
    /\ LET cu == db.current_user
           del == Q("DELETE FROM post WHERE post_id AND user_id", <<pid, cu.user_id>>)
       IN  IF ~yes
           THEN Session(cu, db.screen, Did("delete_post", pid, FALSE, <<>>, <<>>, None))
           ELSE IF ~eOk
           THEN Session(cu, db.screen,
                        Did("delete_post", pid, FALSE, <<del>>, <<"Failed to delete post.">>, None))
           ELSE /\ db' = [db EXCEPT
                            !.post = {r \in @ : ~OwnRow(r, pid, cu.user_id)},
                            !.last = Did("delete_post", pid, TRUE, <<del>>, <<"Post removed.">>, None)]
                /\ UNCHANGED jsonvars

\* _admin_delete_post with the row selected in the table of posts (0: none)
AdminDeletePost(pid, yes, eOk) ==
    /\ db.screen = "admin"
    /\ LET del == Q("DELETE FROM post WHERE post_id", <<pid>>)
       IN  IF pid = 0 \/ ~yes
           THEN Session(db.current_user, db.screen,
                        Did("_admin_delete_post", pid, FALSE, <<>>, <<>>, None))
           ELSE IF ~eOk
           THEN Session(db.current_user, db.screen,
                        Did("_admin_delete_post", pid, FALSE, <<del>>, <<>>, None))
           ELSE /\ db' = [db EXCEPT
                            !.post = {r \in @ : r.post_id # pid},
                            !.last = Did("_admin_delete_post", pid, TRUE, <<del>>,
                                         <<"Post removed.">>, None)]
                /\ UNCHANGED jsonvars

UserIds == {r.user_id : r \in db.user}
DbPostIds == {r.post_id : r \in db.post}

NextDb ==
    \/ \E name \in LoginNames, password \in LoginPasswords : Login(name, password)
    \/ Logout
    \/ \E username \in SignupNames, email \in SignupEmails,
          password \in SignupPasswords, ok \in BOOLEAN :
            RegisterUser(username, email, password, ok)
    \/ NavHome
    \/ NavSearch
    \/ \E target \in UserIds, pOk, eOk \in BOOLEAN : FollowUser(target, pOk, eOk)
    \/ \E content \in {"", "hello"}, pOk, eOk \in BOOLEAN : AddPost(content, pOk, eOk)
    \/ \E pid \in DbPostIds, new_content \in {"", "hello"}, eOk \in BOOLEAN :
            EditPost(pid, new_content, eOk)
    \/ \E pid \in DbPostIds, yes, eOk \in BOOLEAN : DeletePost(pid, yes, eOk)
    \/ \E pid \in DbPostIds \cup {0}, yes, eOk \in BOOLEAN : AdminDeletePost(pid, yes, eOk)

SpecDb == InitDb /\ [][NextDb]_vars

\* ================================================================ claims
IsPrefix(s, t) == Len(s) <= Len(t) /\ SubSeq(t, 1, Len(s)) = s

\* the post of document d with id pid
PostOf(d, pid) == d.posts[FindPost(d, pid)]

Elems(s) == {s[i] : i \in 1..Len(s)}

\* the greatest id among a non-empty sequence of posts
GreatestId(ps) ==
    CHOOSE m \in {ps[i].post_id : i \in 1..Len(ps)} :
        \A i \in 1..Len(ps) : ps[i].post_id <= m

\* the comments of a post without their timestamps
Said(cs) ==
    [i \in 1..Len(cs) |->
        [user_id |-> cs[i].user_id, username |-> cs[i].username, text |-> cs[i].text]]

\* a handler of this name ran to its save_data, which succeeded, and the
\* step took the file from one stored document to another
Persisted(name) ==
    /\ lastOp'.name = name
    /\ lastOp'.saved
    /\ file.status = "ok"
    /\ file'.status = "ok"
    /\ file' # file

\* ---- C1: in every stored document, every post's like count equals the
\* number of entries of its liked_by list.
LikesEqualLikedBy ==
    file.status = "ok" =>
        \A i \in 1..Len(file.doc.posts) :
            file.doc.posts[i].likes = Len(file.doc.posts[i].liked_by)

\* ---- C2: over sequences of createPost alone, from the seeded document or
\* from one with no posts, no two posts of the document share an id and each
\* id assigned is greater than every id assigned before it.
CreateIdsUniqueIncreasing ==
    /\ \A i, j \in 1..Len(file.doc.posts) :
           i # j => file.doc.posts[i].post_id # file.doc.posts[j].post_id
    /\ lastOp.name = "createPost" => lastOp.post_id > lastOp.prior

CreateIdsWitness ==
    /\ lastOp.name = "createPost"
    /\ lastOp.prior > 0
    /\ Len(file.doc.posts) >= 3

\* ---- C3: across all store operations, every id _create_post assigns is
\* greater than every id it assigned before; no id is assigned twice.
AssignedIdsNeverReused ==
    (lastOp.name = "createPost" /\ lastOp.post_id # 0) => lastOp.post_id > lastOp.prior

\* ---- C4: toggling the like of a post twice in a row leaves the post's
\* like count and its set of likers as they were.
DoubleToggleRestores ==
    file.status = "ok" =>
        \A pid \in PostIdSet(file.doc) :
            LET twice == ToggleLikeDoc(ToggleLikeDoc(file.doc, pid), pid)
            IN  /\ PostOf(twice, pid).likes = PostOf(file.doc, pid).likes
                /\ Elems(PostOf(twice, pid).liked_by) = Elems(PostOf(file.doc, pid).liked_by)

\* a post that was liked and then unliked again, both persisted
DoubleToggleWitness ==
    /\ lastOp.name = "toggleLike" /\ lastOp.found /\ lastOp.saved
    /\ file.status = "ok"
    /\ HasPost(file.doc, lastOp.post_id)
    /\ PostOf(file.doc, lastOp.post_id).liked_by = <<>>
    /\ PostOf(file.doc, lastOp.post_id).likes = PostOf(DefaultData(0), lastOp.post_id).likes

\* ---- C5: one toggleLike on an existing post removes the user from
\* liked_by and sets likes to max(0, likes - 1) if the user was in liked_by,
\* and otherwise appends the user and sets likes to likes + 1.
ToggleLikeEffect ==
    [][ (Persisted("toggleLike") /\ lastOp'.found) =>
            LET p == PostOf(file.doc, lastOp'.post_id)
                q == PostOf(file'.doc, lastOp'.post_id)
                u == file.doc.current_user.user_id
            IN  IF u \in Elems(p.liked_by)
                THEN /\ u \notin Elems(q.liked_by)
                     /\ Elems(q.liked_by) = Elems(p.liked_by) \ {u}
                     /\ q.likes = (IF p.likes - 1 > 0 THEN p.likes - 1 ELSE 0)
                ELSE /\ q.liked_by = p.liked_by \o <<u>>
                     /\ q.likes = p.likes + 1 ]_vars

ToggleLikeWitness ==
    /\ lastOp.name = "toggleLike" /\ lastOp.found /\ lastOp.saved
    /\ file.status = "ok"
    /\ HasPost(file.doc, lastOp.post_id)
    /\ PostOf(file.doc, lastOp.post_id).liked_by = <<1>>

\* ---- C6: createPost gives the new post the id (greatest existing id + 1),
\* or 1 when the document has no posts, and puts it at position 0, ahead of
\* the existing posts.
CreatePostIdAndPosition ==
    [][ Persisted("createPost") =>
            LET old == file.doc.posts
                new == file'.doc.posts
            IN  /\ Len(new) = Len(old) + 1
                /\ Tail(new) = old
                /\ new[1].post_id = (IF old = <<>> THEN 1 ELSE GreatestId(old) + 1) ]_vars

CreatePostWitness ==
    /\ lastOp.name = "createPost"
    /\ PostIds(file.doc) = <<4, 1, 2, 3>>

\* ---- C7: a post made by createPost starts with likes = 0, an empty
\* liked_by, no comments, and the current user's user_id and username.
NewPostFields ==
    (lastOp.name = "createPost" /\ lastOp.post_id # 0 /\ lastOp.saved /\ file.status = "ok") =>
        LET p == file.doc.posts[1]
        IN  /\ p.post_id = lastOp.post_id
            /\ p.likes = 0
            /\ p.liked_by = <<>>
            /\ p.comments = <<>>
            /\ p.user_id = file.doc.current_user.user_id
            /\ p.username = file.doc.current_user.username

NewPostWitness ==
    /\ lastOp.name = "createPost" /\ lastOp.post_id # 0 /\ lastOp.saved
    /\ file.status = "ok"
    /\ file.doc.posts[1].image_path # None

CommentsOnlyGrow ==
    [][ (file.status = "ok" /\ file'.status = "ok") =>
            \A i \in 1..Len(file.doc.posts), j \in 1..Len(file'.doc.posts) :
                file.doc.posts[i].post_id = file'.doc.posts[j].post_id =>
                    IsPrefix(Said(file.doc.posts[i].comments),
                             Said(file'.doc.posts[j].comments)) ]_vars

\* a handler ran in this step, and its load_data found the file in state st
Ran(st) == lastOp' # lastOp /\ lastOp'.loaded = st

Succeeded(op) ==
    InList("Post created successfully!", op.msgs) \/ InList("Comment added!", op.msgs)

\* the texts a caption or comment box can hand to a handler
Texts == {Strip(r) : r \in RawTexts} \ {<<>>}

\* the documents the handlers can hand to save_data when they loaded d
HandlerDocs(d) ==
    {d} \cup {ToggleLikeDoc(d, pid) : pid \in PostIdSet(d)}
        \cup {AddCommentDoc(d, pid, x, clock) : pid \in PostIdSet(d), x \in Texts}
        \cup {CreatePostDoc(d, x, SavedImagePath(i, clock), clock) :
                  x \in Texts, i \in ImageChoices}

\* ---- C11: a document that save_data writes successfully is the document
\* load_data returns next.
RoundTrip ==
    file.status = "ok" =>
        \A d \in HandlerDocs(file.doc) :
            LoadData(SaveData(file, d, "ok"), "ok", clock).doc = d

RoundTripWitness ==
    /\ lastOp.name = "addComment" /\ lastOp.found /\ lastOp.saved
    /\ file.status = "ok"
    /\ lastOp.post_id = 3
    /\ Len(PostOf(file.doc, 3).comments) = 1

\* ---- C12: a handler whose save_data fails leaves the file holding the
\* document it held before.
FailedSaveLeavesFile ==
    [][ (Ran("ok") /\ ~lastOp'.saved) => file' = file ]_vars

\* ---- C13: a handler whose save_data failed shows no success dialog.
NoSuccessUnlessSaved ==
    Succeeded(lastOp) => lastOp.saved

\* a run of _create_post whose image copy failed
ImageFailed(op) == op.name = "createPost" /\ InList("Failed to save image", op.msgs)

\* ---- C14 as claimed: when the image copy fails no post is added, no id is
\* used up and the file is not written.
ImageFailureWritesNothing ==
    [][ (lastOp' # lastOp /\ ImageFailed(lastOp')) =>
            /\ file' = file
            /\ highId' = highId
            /\ feed' = feed ]_vars

\* ---- C14 as amended: when the image copy fails no post is added, no id is
\* used up and no success is shown; a file that held a document is left as
\* it was, and a file that was missing or unparsable is as load_data's save
\* of the default document left it.
ImageFailureLeavesDocument ==
    [][ (lastOp' # lastOp /\ ImageFailed(lastOp')) =>
            /\ highId' = highId
            /\ feed' = feed
            /\ ~Succeeded(lastOp')
            /\ IF file.status = "ok"
               THEN file' = file
               ELSE file' \in {file, Corrupt, Stored(DefaultData(clock))} ]_vars

ImageFailureWitness ==
    /\ ImageFailed(lastOp)
    /\ lastOp.loaded = "ok"
    /\ file.status = "ok"

LoadOnCorruptGivesDefault ==
    [][ (Ran("corrupt") /\ lastOp'.saved) =>
            LET D == DefaultData(clock)
            IN  CASE lastOp'.name = "toggleLike" ->
                        file' = Stored(ToggleLikeDoc(D, lastOp'.post_id))
                  [] lastOp'.name = "addComment" ->
                        \E x \in Texts :
                            file' = Stored(AddCommentDoc(D, lastOp'.post_id, x, clock))
                  [] lastOp'.name = "createPost" ->
                        /\ file'.status = "ok"
                        /\ Tail(file'.doc.posts) = D.posts
                        /\ file'.doc.current_user = D.current_user
                        /\ file'.doc.users = D.users ]_vars

LoadOnCorruptWitness ==
    /\ lastOp.loaded = "corrupt"
    /\ lastOp.saved
    /\ file.status = "ok"

\* ---- C17: toggleLike or addComment for a post id that the loaded document
\* does not have saves the loaded document as it is.
AbsentTargetNoOp ==
    [][ (lastOp' # lastOp /\ lastOp'.name \in {"toggleLike", "addComment"}
            /\ lastOp'.loaded # "none" /\ ~lastOp'.found /\ lastOp'.saved) =>
            file' = Stored(IF file.status = "ok" THEN file.doc ELSE DefaultData(clock)) ]_vars

AbsentTargetWitness ==
    /\ lastOp.name = "toggleLike"
    /\ lastOp.loaded # "none" /\ ~lastOp.found /\ lastOp.saved
    /\ lastOp.post_id = 4
    /\ file.status = "ok"
    /\ PostIds(file.doc) = <<1, 2, 3>>

\* ---- C18: addComment for a post id that the loaded document does not
\* have never ends in the dialog "Comment added!".
AbsentTargetReported ==
    (lastOp.name = "addComment" /\ lastOp.loaded # "none" /\ ~lastOp.found) =>
        ~InList("Comment added!", lastOp.msgs)

\* ---- C19: in every stored document every post's like count is at least 0.
LikesNonNegative ==
    file.status = "ok" =>
        \A i \in 1..Len(file.doc.posts) : file.doc.posts[i].likes >= 0

\* a created post was liked and unliked again: its count is back at 0
LikesNonNegativeWitness ==
    /\ lastOp.name = "toggleLike" /\ lastOp.found /\ lastOp.saved
    /\ file.status = "ok"
    /\ lastOp.post_id = 4
    /\ HasPost(file.doc, 4)
    /\ PostOf(file.doc, 4).likes = 0

\* ---- C20: from one stored document to the next no post is lost: the
\* handlers reload the file and write back nothing they had cached.
NoMutationLost ==
    [][ (file.status = "ok" /\ file'.status = "ok") =>
            PostIdSet(file.doc) \subseteq PostIdSet(file'.doc) ]_vars

\* likes - len(liked_by) of a post
Surplus(p) == p.likes - Len(p.liked_by)

\* ---- C21: from one stored document to the next, likes - size(liked_by) of
\* every post stays at the value it had when the post was seeded or created.
SurplusConstant ==
    [][ (file.status = "ok" /\ file'.status = "ok") =>
            /\ \A pid \in PostIdSet(file.doc) \cap PostIdSet(file'.doc) :
                   Surplus(PostOf(file'.doc, pid)) = Surplus(PostOf(file.doc, pid))
            /\ \A pid \in PostIdSet(file'.doc) \ PostIdSet(file.doc) :
                   Surplus(PostOf(file'.doc, pid)) =
                       (IF pid \in PostIdSet(DefaultData(0))
                        THEN Surplus(PostOf(DefaultData(0), pid)) ELSE 0) ]_vars

\* seeded post 2 was liked and is now unliked again
SurplusWitness ==
    /\ lastOp.name = "toggleLike" /\ lastOp.found /\ lastOp.saved
    /\ lastOp.post_id = 2
    /\ file.status = "ok"
    /\ PostOf(file.doc, 2).liked_by = <<>>
    /\ PostOf(file.doc, 2).likes = 28

\* ---- C22: in every stored document each post's liked_by holds no id twice
\* and no id but the current user's.
LikedByOnlyCurrentUser ==
    file.status = "ok" =>
        \A i \in 1..Len(file.doc.posts) :
            LET lb == file.doc.posts[i].liked_by
            IN  /\ \A j, k \in 1..Len(lb) : j # k => lb[j] # lb[k]
                /\ Elems(lb) \subseteq {file.doc.current_user.user_id}
                /\ Len(lb) <= 1

LikedByWitness ==
    /\ lastOp.name = "toggleLike" /\ lastOp.found /\ lastOp.saved
    /\ lastOp.post_id = 3
    /\ file.status = "ok"
    /\ PostOf(file.doc, 3).liked_by = <<1>>
    /\ PostOf(file.doc, 1).liked_by = <<1>>

\* post p with its likes and liked_by taken from q
WithLikesOf(p, q) == [p EXCEPT !.likes = q.likes, !.liked_by = q.liked_by]

\* ---- C23: toggleLike on an existing post changes that post's likes and
\* liked_by and nothing else of the document.
ToggleLikeFrame ==
    [][ (Persisted("toggleLike") /\ lastOp'.found) =>
            LET i == FindPost(file.doc, lastOp'.post_id)
            IN  /\ PostIds(file'.doc) = PostIds(file.doc)
                /\ file'.doc =
                     [file.doc EXCEPT !.posts[i] = WithLikesOf(@, file'.doc.posts[i])] ]_vars

\* a like of seeded post 1 while a created post with a comment stands ahead
ToggleLikeFrameWitness ==
    /\ lastOp.name = "toggleLike" /\ lastOp.found /\ lastOp.saved
    /\ lastOp.post_id = 1
    /\ file.status = "ok"
    /\ PostIds(file.doc) = <<4, 1, 2, 3>>
    /\ Len(file.doc.posts[1].comments) = 1

\* ---- C24: createPost leaves the existing posts as they were, in their
\* order, behind the new post; addComment on an existing post changes that
\* post's comments and nothing else of the document.
CreateAndCommentFrame ==
    [][ /\ Persisted("createPost") =>
               file'.doc = [file.doc EXCEPT !.posts = <<file'.doc.posts[1]>> \o @]
        /\ (Persisted("addComment") /\ lastOp'.found) =>
               LET i == FindPost(file.doc, lastOp'.post_id)
               IN  file'.doc =
                     [file.doc EXCEPT !.posts[i].comments = file'.doc.posts[i].comments] ]_vars

\* a comment on seeded post 2 after post 1 was liked and a post was created
CommentFrameWitness ==
    /\ lastOp.name = "addComment" /\ lastOp.found /\ lastOp.saved
    /\ lastOp.post_id = 2
    /\ file.status = "ok"
    /\ Len(file.doc.posts) = 4
    /\ PostOf(file.doc, 1).liked_by = <<1>>

BlankTexts == {r \in RawTexts : \A i \in 1..Len(r) : r[i] \in WhiteSpace}

\* ---- C26: createPost or addComment with an empty or all-white-space text
\* ends before load_data: the file is left as it is, whatever its state, and
\* nothing is added.
BlankRejectedBeforeLoad ==
    [][ \A raw \in BlankTexts :
            ( \/ \E image \in ImageChoices, imgOk \in BOOLEAN : CreatePost(raw, image, imgOk)
              \/ \E pid \in feed : AddComment(pid, raw) ) =>
            /\ file' = file
            /\ feed' = feed
            /\ highId' = highId
            /\ lastOp'.loaded = "none"
            /\ ~lastOp'.saved
            /\ ~Succeeded(lastOp') ]_vars

\* a blank comment was rejected while the file was unparsable: it still is
BlankRejectedWitness ==
    /\ lastOp.name = "addComment"
    /\ lastOp.loaded = "none"
    /\ lastOp.msgs = <<"Please enter a comment!">>
    /\ file.status = "corrupt"

FollowWrites == {"CALL follow_user", "INSERT INTO follow"}

\* ---- C27: follow_user never sends the follow procedure or a follow insert
\* with follower equal to following, the follow table never holds such a
\* row, and a request to follow oneself sends no statement at all.
NoSelfFollow ==
    /\ \A pr \in db.follow : pr[1] # pr[2]
    /\ \A i \in 1..Len(db.last.sql) :
           db.last.sql[i].stmt \in FollowWrites =>
               db.last.sql[i].args[1] # db.last.sql[i].args[2]
    /\ (db.last.name = "follow_user" /\ db.current_user # None
            /\ db.last.arg = db.current_user.user_id) =>
           (db.last.sql = <<>> /\ ~db.last.ok)

\* a request to follow oneself was refused while a real follow is stored
SelfFollowWitness ==
    /\ db.last.name = "follow_user"
    /\ db.last.msgs = <<"You cannot follow yourself.">>
    /\ db.last.arg = db.current_user.user_id
    /\ db.follow # {}

\* ---- C28: edit_post and delete_post leave every post of another user as
\* it is, and the statement they send names the current user's id as owner;
\* _admin_delete_post removes the selected post whoever owns it.
OwnPostsOnly ==
    [][ db' # db =>
          /\ db'.last.name \in {"edit_post", "delete_post"} =>
                /\ \A r \in db.post :
                       r.user_id # db.current_user.user_id => r \in db'.post
                /\ \A r \in db'.post :
                       r.user_id # db.current_user.user_id => r \in db.post
                /\ \A i \in 1..Len(db'.last.sql) :
                       db'.last.sql[i].args = <<db'.last.arg, db.current_user.user_id>>
          /\ (db'.last.name = "_admin_delete_post" /\ db'.last.ok) =>
                db'.post = {r \in db.post : r.post_id # db'.last.arg} ]_vars

\* a delete of harini's post by another user went through and the post is
\* still there
OwnPostsWitness ==
    /\ db.last.name = "delete_post" /\ db.last.ok
    /\ db.current_user.user_id # 2
    /\ \E r \in db.post : r.post_id = db.last.arg /\ r.user_id = 2

\* ---- C29: the admin dashboard is shown only while current_user is set
\* with the admin flag; _login sets the flag exactly for an account whose
\* email is admin@blogify.local or whose username is admin, in any case of
\* letters; only _login and logout change current_user; a failed login
\* leaves current_user and the screen alone; logout sets current_user to
\* None and shows the login screen.
SessionMachine ==
    /\ [](db.screen = "admin" => IsAdmin(db.current_user))
    /\ []((db.last.name = "_login" /\ db.last.ok) =>
            /\ db.current_user # None
            /\ db.current_user.user_id = db.last.row.user_id
            /\ db.current_user.is_admin <=>
                  (\/ Lower(db.last.row.email) = "admin@blogify.local"
                   \/ Lower(db.last.row.username) = "admin"))
    /\ [][ db' # db =>
             /\ db'.current_user # db.current_user =>
                    (db'.last.name \in {"_login", "logout"} /\ db'.last.ok)
             /\ (db'.last.name = "_login" /\ ~db'.last.ok) =>
                    (db'.current_user = db.current_user /\ db'.screen = db.screen)
             /\ db'.last.name = "logout" =>
                    (db'.current_user = None /\ db'.screen = "login") ]_vars

\* a signed-up account named Admin is logged in and sees the admin dashboard
SessionWitness ==
    /\ db.screen = "admin"
    /\ db.last.name = "_login"
    /\ db.current_user.username = "Admin"
    /\ db.current_user.user_id = 3

====
